---- MODULE Spec2Model ----
(***************************************************************************)
(* A model of pdf-creator/src/manual.rs: the fixed five-object document    *)
(* built by PdfDocument::new and the serializer PdfDocument::create, which *)
(* streams header, objects, cross-reference table and trailer into a file. *)
(*                                                                         *)
(* A Rust String / &str / &[u8] is a sequence of byte values 0..255.  A    *)
(* char is its Unicode scalar value.  The file is the byte sequence it     *)
(* holds together with the cursor of the open handle.                      *)
(***************************************************************************)
EXTENDS Integers, Sequences, FiniteSets, TLC

\* Longest caller text drawn from Alphabet (the text "Hello" is drawn too).
MaxLen == 2

(***************************************************************************)
(* Bytes of ASCII literals                                                 *)
(***************************************************************************)
\* The printable ASCII characters 32..95 and 97..126, in code order.
AsciiLo == " !\"#$%&'()*+,-./0123456789:;<=>?@ABCDEFGHIJKLMNOPQRSTUVWXYZ[\\]^_"
AsciiHi == "abcdefghijklmnopqrstuvwxyz{|}~"

\* The byte value of a one-character ASCII string.
Ord(c) ==
    IF c = "\n" THEN 10
    ELSE IF \E i \in 1..Len(AsciiLo) : SubSeq(AsciiLo, i, i) = c
         THEN 31 + (CHOOSE i \in 1..Len(AsciiLo) : SubSeq(AsciiLo, i, i) = c)
         ELSE 96 + (CHOOSE i \in 1..Len(AsciiHi) : SubSeq(AsciiHi, i, i) = c)

\* str::as_bytes of an ASCII string literal.
Bytes(s) == [i \in 1..Len(s) |-> Ord(SubSeq(s, i, i))]

\* char::encode_utf8: the UTF-8 bytes of one Unicode scalar value.
EncodeUtf8(cp) ==
    IF cp < 128 THEN <<cp>>
    ELSE IF cp < 2048 THEN <<192 + (cp \div 64), 128 + (cp % 64)>>
    ELSE IF cp < 65536
         THEN <<224 + (cp \div 4096), 128 + ((cp \div 64) % 64), 128 + (cp % 64)>>
         ELSE <<240 + (cp \div 262144), 128 + ((cp \div 4096) % 64),
                128 + ((cp \div 64) % 64), 128 + (cp % 64)>>

\* The bytes of a &str given as its sequence of chars.
RECURSIVE StrBytes(_)
StrBytes(chars) ==
    IF chars = <<>> THEN <<>>
    ELSE EncodeUtf8(Head(chars)) \o StrBytes(Tail(chars))

\* Fault variant of StrLen: the number of chars (str::chars().count()), which
\* leaves out the UTF-8 continuation bytes 128..191.
StrLenChars(s) == Cardinality({i \in 1..Len(s) : s[i] \notin 128..191})

\* String::len: the number of bytes of the string.
StrLen(s) == Len(s)

(***************************************************************************)
(* format!                                                                 *)
(***************************************************************************)
\* Display of an unsigned integer: its decimal digits, no sign, no padding.
RECURSIVE FmtUnsigned(_)
FmtUnsigned(n) ==
    IF n < 10 THEN <<48 + n>>
    ELSE FmtUnsigned(n \div 10) \o <<48 + (n % 10)>>

\* Display of an f32 holding a whole number (the only values PdfDocument::new
\* stores in media_box, kept here as that whole number): the integer digits
\* with no fraction part.
FmtF32(x) == FmtUnsigned(x)

\* The flag 0 with width w on a number: zeros are put in front until the
\* rendering has w bytes; a rendering that already has w or more is kept whole.
RECURSIVE ZeroPad(_, _)
ZeroPad(w, digits) ==
    IF Len(digits) >= w THEN digits ELSE ZeroPad(w, <<48>> \o digits)

\* The index of the first "{" of template t at or after i, or 0.
RECURSIVE FirstHole(_, _)
FirstHole(t, i) ==
    IF i > Len(t) THEN 0
    ELSE IF t[i] = 123 THEN i
    ELSE FirstHole(t, i + 1)

\* The index of the first "}" of template t at or after i.
RECURSIVE HoleEnd(_, _)
HoleEnd(t, i) == IF t[i] = 125 THEN i ELSE HoleEnd(t, i + 1)

\* What format! makes of its template at compile time: the literal pieces of
\* t and, between them, the format spec found between each "{" and "}".
RECURSIVE Template(_)
Template(t) ==
    LET i == FirstHole(t, 1) IN
    IF i = 0 THEN <<[lit |-> t]>>
    ELSE LET j == HoleEnd(t, i) IN
         <<[lit |-> SubSeq(t, 1, i - 1)], [spec |-> SubSeq(t, i + 1, j - 1)]>>
            \o Template(SubSeq(t, j + 1, Len(t)))

\* One argument rendered under a format spec: the empty spec renders it as it
\* is, ":010" zero-pads it to width 10.
FmtArg(spec, arg) ==
    IF spec = <<>> THEN arg ELSE ZeroPad(10, arg)

\* format!(t, args...): the literal pieces of the template with each hole
\* replaced, in order, by the next argument; an inserted argument is not
\* scanned again.
RECURSIVE Format(_, _)
Format(tpl, args) ==
    IF tpl = <<>> THEN <<>>
    ELSE IF "lit" \in DOMAIN Head(tpl)
         THEN Head(tpl).lit \o Format(Tail(tpl), args)
         ELSE FmtArg(Head(tpl).spec, Head(args)) \o Format(Tail(tpl), Tail(args))

(***************************************************************************)
(* The object model and its rendering                                      *)
(***************************************************************************)
ObjectRef(id, generation) == [id |-> id, generation |-> generation]

Pdf14Str == Bytes("%PDF-1.4\n")

\* PdfVersion::to_str
VersionToStr(version) == CASE version = "Pdf14" -> Pdf14Str

CatalogFmt == Template(Bytes("1 0 obj\n<< /Type /Catalog /Pages {} {} R >>\nendobj\n"))

\* Catalog::to_string
CatalogToString(catalog) ==
    Format(CatalogFmt,
           <<FmtUnsigned(catalog.pages.id), FmtUnsigned(catalog.pages.generation)>>)

PagesFmt == Template(Bytes("2 0 obj\n<< /Type /Pages /Kids [{} {} R] /Count {} >>\nendobj\n"))

\* The two assert_eq! of Pages::to_string; when one fails the call panics.
PagesAsserts(pages) == Len(pages.kids) = pages.count /\ pages.count = 1

\* Pages::to_string, past its assertions
PagesToString(pages) ==
    Format(PagesFmt,
           <<FmtUnsigned(pages.kids[1].id), FmtUnsigned(pages.kids[1].generation),
             FmtUnsigned(pages.count)>>)

PageFmt == Template(Bytes("3 0 obj\n<< /Type /Page /Parent {} {} R /MediaBox [{} {} {} {}] /Contents {} {} R /Resources << /Font << /{} {} {} R >> >> >>\nendobj\n"))

\* Page::to_string
PageToString(page) ==
    Format(PageFmt,
           <<FmtUnsigned(page.parent.id), FmtUnsigned(page.parent.generation),
             FmtF32(page.media_box[1]), FmtF32(page.media_box[2]),
             FmtF32(page.media_box[3]), FmtF32(page.media_box[4]),
             FmtUnsigned(page.contents.id), FmtUnsigned(page.contents.generation),
             page.font_resources.name,
             FmtUnsigned(page.font_resources.object.id),
             FmtUnsigned(page.font_resources.object.generation)>>)

StreamFmt == Template(Bytes("BT\n/F1 24 Tf\n100 700 Td\n({}) Tj\nET\n"))

ContentObjFmt == Template(Bytes("4 0 obj\n<< /Length {} >>\nstream\n{}endstream\nendobj\n"))

\* Fault variant of StreamBody: the operator block without the newline that
\* ends its last line.
StreamBodyNoFinalNewline(contents) ==
    Format(Template(Bytes("BT\n/F1 24 Tf\n100 700 Td\n({}) Tj\nET")),
           <<contents.content>>)

\* The local `stream` of ContentStream::to_string
StreamBody(contents) == Format(StreamFmt, <<contents.content>>)

\* ContentStream::to_string
ContentStreamToString(contents) ==
    LET stream == StreamBody(contents) IN
    Format(ContentObjFmt, <<FmtUnsigned(StrLen(stream)), stream>>)

\* The literal written for object 5
FontObj == Bytes("5 0 obj\n<< /Type /Font /Subtype /Type1 /BaseFont /Helvetica >>\nendobj\n")

\* Fault variant of New: the page's font resource names object 6, which create
\* never writes.
NewDanglingFont(content) ==
    [version |-> "Pdf14",
     catalog |-> [pages |-> ObjectRef(2, 0)],
     pages |-> [kids |-> <<ObjectRef(3, 0)>>, count |-> 1],
     page |-> [parent |-> ObjectRef(2, 0),
               media_box |-> <<0, 0, 595, 842>>,
               contents |-> ObjectRef(4, 0),
               font_resources |-> [name |-> Bytes("F1"),
                                   object |-> ObjectRef(6, 0)]],
     contents |-> [content |-> StrBytes(content)]]

\* Fault variant of New: count says 2 while kids holds one reference.
NewTwoCount(content) ==
    [version |-> "Pdf14",
     catalog |-> [pages |-> ObjectRef(2, 0)],
     pages |-> [kids |-> <<ObjectRef(3, 0)>>, count |-> 2],
     page |-> [parent |-> ObjectRef(2, 0),
               media_box |-> <<0, 0, 595, 842>>,
               contents |-> ObjectRef(4, 0),
               font_resources |-> [name |-> Bytes("F1"),
                                   object |-> ObjectRef(5, 0)]],
     contents |-> [content |-> StrBytes(content)]]

\* PdfDocument::new
New(content) ==
    [version |-> "Pdf14",
     catalog |-> [pages |-> ObjectRef(2, 0)],
     pages |-> [kids |-> <<ObjectRef(3, 0)>>, count |-> 1],
     page |-> [parent |-> ObjectRef(2, 0),
               media_box |-> <<0, 0, 595, 842>>,
               contents |-> ObjectRef(4, 0),
               font_resources |-> [name |-> Bytes("F1"),
                                   object |-> ObjectRef(5, 0)]],
     contents |-> [content |-> StrBytes(content)]]

(***************************************************************************)
(* The file ./manual.pdf and the three operations create uses on it         *)
(***************************************************************************)
\* Every operation on the file either succeeds or returns an io::Error.
IoOutcomes == {"ok", "err"}

\* Write::write_all(buf): n = Len(buf) bytes written and Ok, or an error after
\* only the first n < Len(buf) bytes went out.
WriteAllOutcomes(buf) ==
    {[ok |-> TRUE, n |-> Len(buf)]}
        \cup {[ok |-> FALSE, n |-> k] : k \in 0..(Len(buf) - 1)}

\* The file f after the first n bytes of buf are written at cursor p.
FileWrite(f, p, buf, n) ==
    SubSeq(f, 1, p) \o SubSeq(buf, 1, n) \o SubSeq(f, p + n + 1, Len(f))

\* Fault variant of StreamPosition: the position counted from the end of the
\* nine-byte header, that is from the start of the object section.
StreamPositionInObjects(p) == IF p >= 9 THEN p - 9 ELSE p

\* Seek::stream_position on a File: the cursor of the handle.
StreamPosition(p) == p

\* Fault variant of Try: the error is dropped and the function goes on.
TryIgnore(ok, cont) == [pc |-> cont, result |-> "None"]

\* The ? operator: on Ok the function goes on at `cont`; on Err it returns
\* the error to the caller at once.
Try(ok, cont) ==
    IF ok THEN [pc |-> cont, result |-> "None"]
    ELSE [pc |-> "idle", result |-> "Err"]

(***************************************************************************)
(* PdfDocument::create                                                     *)
(***************************************************************************)
\* The caller texts: every text of at most MaxLen chars over Alphabet
\* (one char of each UTF-8 width: A, e-acute, the euro sign, U+1F600),
\* the text "Hello", and the text "(\)".
Alphabet == {65, 233, 8364, 128512}
Hello == <<72, 101, 108, 108, 111>>
Texts ==
    UNION {[1..n -> Alphabet] : n \in 0..MaxLen} \cup {Hello, <<40, 92, 41>>}

XrefHead == Bytes("xref\n0 6\n0000000000 65535 f\n")
XrefEntryFmt == Template(Bytes("{:010} 00000 n\n"))
TrailerFmt == Template(Bytes("trailer\n<< /Size 6 /Root 1 0 R >>\nstartxref\n{}\n%%EOF"))

\* One line of the loop over offsets
XrefEntry(off) == Format(XrefEntryFmt, <<FmtUnsigned(off)>>)

\* Fault variant of Trailer: startxref points past the keyword line "xref".
TrailerPastXref(xp) == Format(TrailerFmt, <<FmtUnsigned(xp + 5)>>)

\* The last write of create
Trailer(xp) == Format(TrailerFmt, <<FmtUnsigned(xp)>>)

\* The argument of the i-th write_pdf!
ObjString(d, i) ==
    CASE i = 1 -> CatalogToString(d.catalog)
      [] i = 2 -> PagesToString(d.pages)
      [] i = 3 -> PageToString(d.page)
      [] i = 4 -> ContentStreamToString(d.contents)
      [] i = 5 -> FontObj

\* Whether evaluating the argument of the i-th write_pdf! panics.
ObjPanics(d, i) == i = 2 /\ ~PagesAsserts(d.pages)

NumObjs == 5
PushPc == <<"push1", "push2", "push3", "push4", "push5">>
WritePc == <<"write1", "write2", "write3", "write4", "write5">>

\* Fault variant of AfterObj: after object 5 the position of the xref section
\* is not taken.
AfterObjNoMark(i) == IF i < 5 THEN PushPc[i + 1] ELSE "xref_head"

\* Where create goes after the i-th write_pdf!
AfterObj(i) == IF i < NumObjs THEN PushPc[i + 1] ELSE "xref_mark"

(***************************************************************************)
(* Texts too long to write out                                             *)
(*                                                                         *)
(* A u64 position is kept as two limbs, hi * 10^9 + lo, and a text is      *)
(* given by its length in bytes alone.  The file is then followed by its   *)
(* cursor, and by the xref entry lines written to it.                      *)
(***************************************************************************)
\* Text lengths go up to (MaxGiga + 1) * 10^9 bytes.
MaxGiga == 10

LimbBase == 10 ^ 9

WideOf(n) == [hi |-> n \div LimbBase, lo |-> n % LimbBase]

\* a + b on u64 (no sum here comes near 2^64).
WideSum(a, b) ==
    [hi |-> a.hi + b.hi + ((a.lo + b.lo) \div LimbBase),
     lo |-> (a.lo + b.lo) % LimbBase]

\* Display of a u64
WideFmt(a) ==
    IF a.hi = 0 THEN FmtUnsigned(a.lo)
    ELSE FmtUnsigned(a.hi) \o ZeroPad(9, FmtUnsigned(a.lo))

\* The bytes of the literal pieces of a template.
RECURSIVE LitLen(_)
LitLen(tpl) ==
    IF tpl = <<>> THEN 0
    ELSE (IF "lit" \in DOMAIN Head(tpl) THEN Len(Head(tpl).lit) ELSE 0)
            + LitLen(Tail(tpl))

\* stream.len() in ContentStream::to_string, for a content of n bytes.
WideStreamLen(n) == WideSum(n, WideOf(LitLen(StreamFmt)))

\* The length of what ContentStream::to_string returns, for a content of n
\* bytes: the literal pieces, the digits of stream.len(), the stream.
WideContentObjLen(n) ==
    WideSum(WideStreamLen(n),
            WideOf(LitLen(ContentObjFmt) + Len(WideFmt(WideStreamLen(n)))))

\* The length of the argument of the i-th write_pdf!, for a content of n bytes.
WideObjLen(d, n, i) ==
    IF i = 4 THEN WideContentObjLen(n) ELSE WideOf(Len(ObjString(d, i)))

\* One line of the loop over offsets, for a u64 offset.
WideXrefEntry(off) == Format(XrefEntryFmt, <<WideFmt(off)>>)

\* The last write of create, for a u64 xref_pos.
WideTrailer(xp) == Format(TrailerFmt, <<WideFmt(xp)>>)

\* The text lengths drawn: below and above the length at which the offset of
\* object 5 reaches 10^10.
WideLens ==
    {[hi |-> h, lo |-> l] :
        h \in 0..MaxGiga, l \in {0, 5, LimbBase - 400, LimbBase - 300}}

\* A document of n text bytes on which create has not been called.
WideStart(n) ==
    [len |-> n, pc |-> "idle", result |-> "None", pos |-> WideOf(0),
     offsets |-> <<>>, xref_pos |-> WideOf(0), entry |-> 0, lines |-> <<>>]

VARIABLES
    text,       \* the &str given to PdfDocument::new
    doc,        \* the PdfDocument
    pc,         \* where create stands; "idle" outside a call
    result,     \* what the last call of create returned; "None" while it runs
    opened,     \* whether the running (or last) call got its File
    file,       \* the bytes of ./manual.pdf
    pos,        \* the cursor of the File
    offsets,    \* the local Vec<u64>
    xref_pos,   \* the local xref_pos
    entry,      \* how many offsets the for loop has consumed
    fails,      \* how many file operations of the call returned an error
    wide        \* a call of create on a text given by its length alone

vars == <<text, doc, pc, result, opened, file, pos, offsets, xref_pos, entry,
          fails, wide>>

sinkVars == <<opened, file, pos>>
localVars == <<offsets, xref_pos, entry>>

Init ==
    /\ text \in Texts
    /\ doc = New(text)
    /\ pc = "idle"
    /\ result = "None"
    /\ opened = FALSE
    /\ file = <<>>
    /\ pos = 0
    /\ offsets = <<>>
    /\ xref_pos = 0
    /\ entry = 0
    /\ fails = 0
    /\ wide = WideStart(WideOf(0))

\* What every step of create does with the outcome of one file operation.
Outcome(ok, cont) ==
    /\ pc' = Try(ok, cont).pc
    /\ result' = Try(ok, cont).result
    /\ fails' = IF ok THEN fails ELSE fails + 1

\* file.write_all(buf)?
WriteAll(buf, cont) ==
    \E o \in WriteAllOutcomes(buf) :
        /\ file' = FileWrite(file, pos, buf, o.n)
        /\ pos' = pos + o.n
        /\ Outcome(o.ok, cont)

\* let mut file = File::create("./manual.pdf")?;  a call of create starts here
CreateFile ==
    /\ pc = "idle"
    /\ \E o \in IoOutcomes :
        /\ opened' = (o = "ok")
        /\ file' = IF o = "ok" THEN <<>> ELSE file
        /\ pos' = 0
        /\ pc' = Try(o = "ok", "header").pc
        /\ result' = Try(o = "ok", "header").result
        /\ fails' = IF o = "ok" THEN 0 ELSE 1
    /\ offsets' = <<>>
    /\ xref_pos' = 0
    /\ entry' = 0
    /\ UNCHANGED <<wide, text, doc>>

\* file.write_all(self.version.to_str().as_bytes())?;  let mut offsets = Vec::new();
WriteHeader ==
    /\ pc = "header"
    /\ WriteAll(VersionToStr(doc.version), PushPc[1])
    /\ UNCHANGED <<wide, text, doc, opened, localVars>>

\* write_pdf!, first statement: offsets.push(file.stream_position()?);
PushOffset(i) ==
    /\ pc = PushPc[i]
    /\ \E o \in IoOutcomes :
        /\ offsets' = IF o = "ok" THEN Append(offsets, StreamPosition(pos))
                      ELSE offsets
        /\ Outcome(o = "ok", WritePc[i])
    /\ UNCHANGED <<wide, text, doc, sinkVars, xref_pos, entry>>

\* write_pdf!, second statement: file.write_all($s.as_bytes())?;
WriteObj(i) ==
    /\ pc = WritePc[i]
    /\ IF ObjPanics(doc, i)
       THEN /\ pc' = "panicked"
            /\ UNCHANGED <<result, file, pos, fails>>
       ELSE WriteAll(ObjString(doc, i), AfterObj(i))
    /\ UNCHANGED <<wide, text, doc, opened, localVars>>

\* let xref_pos = file.stream_position()?;
MarkXref ==
    /\ pc = "xref_mark"
    /\ \E o \in IoOutcomes :
        /\ xref_pos' = IF o = "ok" THEN StreamPosition(pos) ELSE xref_pos
        /\ Outcome(o = "ok", "xref_head")
    /\ UNCHANGED <<wide, text, doc, sinkVars, offsets, entry>>

\* Fault variant of LoopPc: the loop leaves out the last offset.
LoopPcShort(k) == IF k < Len(offsets) - 1 THEN "xref_entry" ELSE "trailer"

\* Where the for loop stands once k offsets are consumed.
LoopPc(k) == IF k < Len(offsets) THEN "xref_entry" ELSE "trailer"

\* file.write_all(b"xref\n0 6\n0000000000 65535 f\n")?;
WriteXrefHead ==
    /\ pc = "xref_head"
    /\ WriteAll(XrefHead, LoopPc(0))
    /\ UNCHANGED <<wide, text, doc, opened, localVars>>

\* for off in offsets { file.write_all(format!(...).as_bytes())?; }
WriteXrefEntry ==
    /\ pc = "xref_entry"
    /\ WriteAll(XrefEntry(offsets[entry + 1]), LoopPc(entry + 1))
    /\ entry' = entry + 1
    /\ UNCHANGED <<wide, text, doc, opened, offsets, xref_pos>>

\* file.write_all(format!("trailer...", xref_pos).as_bytes())?;
WriteTrailer ==
    /\ pc = "trailer"
    /\ WriteAll(Trailer(xref_pos), "ret")
    /\ UNCHANGED <<wide, text, doc, opened, localVars>>

\* Ok(())
ReturnOk ==
    /\ pc = "ret"
    /\ pc' = "idle"
    /\ result' = "Ok"
    /\ UNCHANGED <<wide, text, doc, sinkVars, localVars, fails>>

Next ==
    \/ CreateFile
    \/ WriteHeader
    \/ \E i \in 1..NumObjs : PushOffset(i)
    \/ \E i \in 1..NumObjs : WriteObj(i)
    \/ MarkXref
    \/ WriteXrefHead
    \/ WriteXrefEntry
    \/ WriteTrailer
    \/ ReturnOk

Spec == Init /\ [][Next]_vars

(***************************************************************************)
(* PdfDocument::create on a text given by its length                       *)
(***************************************************************************)
mainVars == <<text, doc, pc, result, opened, file, pos, offsets, xref_pos, entry,
              fails>>

InitLarge ==
    /\ text = <<>>
    /\ doc = New(text)
    /\ pc = "idle"
    /\ result = "None"
    /\ opened = FALSE
    /\ file = <<>>
    /\ pos = 0
    /\ offsets = <<>>
    /\ xref_pos = 0
    /\ entry = 0
    /\ fails = 0
    /\ \E n \in WideLens : wide = WideStart(n)

\* file.write_all(buf)? for a buffer of n bytes.  A failed write leaves the
\* cursor somewhere inside the buffer; create never reads it afterwards.
WideWriteAll(w, n, cont) ==
    {[w EXCEPT !.pc = Try(o = "ok", cont).pc,
               !.result = Try(o = "ok", cont).result,
               !.pos = IF o = "ok" THEN WideSum(w.pos, n) ELSE w.pos] :
        o \in IoOutcomes}

\* let mut file = File::create("./manual.pdf")?;
LargeCreateFile ==
    /\ wide.pc = "idle"
    /\ \E o \in IoOutcomes :
        wide' = [WideStart(wide.len) EXCEPT
                    !.pc = Try(o = "ok", "header").pc,
                    !.result = Try(o = "ok", "header").result]
    /\ UNCHANGED mainVars

\* file.write_all(self.version.to_str().as_bytes())?;
LargeWriteHeader ==
    /\ wide.pc = "header"
    /\ wide' \in WideWriteAll(wide, WideOf(Len(VersionToStr(doc.version))), PushPc[1])
    /\ UNCHANGED mainVars

\* offsets.push(file.stream_position()?);
LargePushOffset(i) ==
    /\ wide.pc = PushPc[i]
    /\ \E o \in IoOutcomes :
        wide' = [wide EXCEPT
                    !.pc = Try(o = "ok", WritePc[i]).pc,
                    !.result = Try(o = "ok", WritePc[i]).result,
                    !.offsets = IF o = "ok" THEN Append(@, wide.pos) ELSE @]
    /\ UNCHANGED mainVars

\* file.write_all($s.as_bytes())?;
LargeWriteObj(i) ==
    /\ wide.pc = WritePc[i]
    /\ wide' \in WideWriteAll(wide, WideObjLen(doc, wide.len, i), AfterObj(i))
    /\ UNCHANGED mainVars

\* let xref_pos = file.stream_position()?;
LargeMarkXref ==
    /\ wide.pc = "xref_mark"
    /\ \E o \in IoOutcomes :
        wide' = [wide EXCEPT
                    !.pc = Try(o = "ok", "xref_head").pc,
                    !.result = Try(o = "ok", "xref_head").result,
                    !.xref_pos = IF o = "ok" THEN wide.pos ELSE @]
    /\ UNCHANGED mainVars

\* file.write_all(b"xref\n0 6\n0000000000 65535 f\n")?;
LargeWriteXrefHead ==
    /\ wide.pc = "xref_head"
    /\ wide' \in WideWriteAll(wide, WideOf(Len(XrefHead)),
                              IF 0 < Len(wide.offsets) THEN "xref_entry" ELSE "trailer")
    /\ UNCHANGED mainVars

\* for off in offsets { file.write_all(format!(...).as_bytes())?; }
\* A line counts as written once its write_all returned Ok.
LargeWriteXrefEntry ==
    /\ wide.pc = "xref_entry"
    /\ LET line == WideXrefEntry(wide.offsets[wide.entry + 1])
           cont == IF wide.entry + 1 < Len(wide.offsets) THEN "xref_entry" ELSE "trailer"
       IN \E w \in WideWriteAll(wide, WideOf(Len(line)), cont) :
            wide' = [w EXCEPT !.entry = @ + 1,
                              !.lines = IF w.result = "Err" THEN @ ELSE Append(@, line)]
    /\ UNCHANGED mainVars

\* file.write_all(format!("trailer...", xref_pos).as_bytes())?;
LargeWriteTrailer ==
    /\ wide.pc = "trailer"
    /\ wide' \in WideWriteAll(wide, WideOf(Len(WideTrailer(wide.xref_pos))), "ret")
    /\ UNCHANGED mainVars

\* Ok(())
LargeReturnOk ==
    /\ wide.pc = "ret"
    /\ wide' = [wide EXCEPT !.pc = "idle", !.result = "Ok"]
    /\ UNCHANGED mainVars

NextLarge ==
    \/ LargeCreateFile
    \/ LargeWriteHeader
    \/ \E i \in 1..NumObjs : LargePushOffset(i)
    \/ \E i \in 1..NumObjs : LargeWriteObj(i)
    \/ LargeMarkXref
    \/ LargeWriteXrefHead
    \/ LargeWriteXrefEntry
    \/ LargeWriteTrailer
    \/ LargeReturnOk

SpecLarge == InitLarge /\ [][NextLarge]_vars

(***************************************************************************)
(* Reading the written file back                                           *)
(***************************************************************************)
\* create has returned Ok(()) / an error.
Done == pc = "idle" /\ result = "Ok"
Failed == pc = "idle" /\ result = "Err"

\* The bytes the running (or last) call of create put into its sink.
Written == IF opened THEN file ELSE <<>>

\* The literal lit stands in f at byte offset p (offsets count from 0).
At(f, p, lit) == p + Len(lit) <= Len(f) /\ SubSeq(f, p + 1, p + Len(lit)) = lit

\* Offset p of f is the start of a line.
LineStart(f, p) == p = 0 \/ f[p] = 10

\* The offsets of f at which a line starts with lit.
LineOffsets(f, lit) ==
    {p \in 0..(Len(f) - Len(lit)) : LineStart(f, p) /\ At(f, p, lit)}

Min(S) == CHOOSE x \in S : \A y \in S : x <= y

IsDigit(b) == b \in 48..57

\* The offset just past the run of decimal digits that starts at offset p.
RECURSIVE DigitsEnd(_, _)
DigitsEnd(f, p) ==
    IF p < Len(f) /\ IsDigit(f[p + 1]) THEN DigitsEnd(f, p + 1) ELSE p

\* The number a digit string denotes.
RECURSIVE DecValue(_)
DecValue(ds) ==
    IF ds = <<>> THEN 0
    ELSE 10 * DecValue(SubSeq(ds, 1, Len(ds) - 1)) + (ds[Len(ds)] - 48)

\* The decimal number read at offset p of f.
ReadDec(f, p) == DecValue(SubSeq(f, p + 1, DigitsEnd(f, p)))

\* s is a prefix of t / a strict one.
IsPrefix(s, t) == Len(s) <= Len(t) /\ SubSeq(t, 1, Len(s)) = s
IsStrictPrefix(s, t) == Len(s) < Len(t) /\ SubSeq(t, 1, Len(s)) = s

\* The line that opens indirect object i.
ObjLine(i) == FmtUnsigned(i) \o Bytes(" 0 obj\n")

\* Where the keyword line "xref" stands in the file.
XrefAt == Min(LineOffsets(file, Bytes("xref\n")))

\* The offset of the k-th entry line of the xref subsection (k = 0 is the free
\* entry), which follows "xref\n" and the subsection header "0 6\n".  An
\* entry line as create writes it has 19 bytes: 10 digits, a space, 5 digits,
\* a space, one letter, a newline.
EntryAt(k) == XrefAt + Len(Bytes("xref\n0 6\n")) + 19 * k

\* The header and the five objects, as the rendering functions give them.
RECURSIVE ObjectsUpTo(_, _)
ObjectsUpTo(d, i) ==
    IF i = 0 THEN VersionToStr(d.version)
    ELSE ObjectsUpTo(d, i - 1) \o ObjString(d, i)

(***************************************************************************)
(* C1: after a successful create, the i-th recorded offset, and the i-th   *)
(* in-use xref entry, is the byte offset from the start of the file at     *)
(* which the line "i 0 obj" stands: the number of bytes (header included)  *)
(* written before it.                                                      *)
(***************************************************************************)
C1_OffsetsLandOnObjects ==
    Done =>
        /\ Len(offsets) = 5
        /\ \A i \in 1..5 :
            /\ offsets[i] \in LineOffsets(file, ObjLine(i))
            /\ offsets[i] = Len(ObjectsUpTo(doc, i - 1))
            /\ DigitsEnd(file, EntryAt(i)) = EntryAt(i) + 10
            /\ ReadDec(file, EntryAt(i)) = offsets[i]

C1_Witness ==
    Done /\ text = Hello /\ offsets = <<9, 58, 115, 241, 328>>

(***************************************************************************)
(* C2: after a successful create, the number written after "startxref\n"   *)
(* is the byte offset at which the keyword "xref" begins, which is the     *)
(* position reached once the header and the five objects are written.      *)
(***************************************************************************)
StartxrefAt == Min(LineOffsets(file, Bytes("startxref\n")))
StartxrefValue == ReadDec(file, StartxrefAt + Len(Bytes("startxref\n")))

C2_StartxrefPointsAtXref ==
    Done =>
        /\ LineOffsets(file, Bytes("startxref\n")) # {}
        /\ LineOffsets(file, Bytes("xref\n")) = {StartxrefValue}
        /\ StartxrefValue = xref_pos
        /\ SubSeq(file, 1, StartxrefValue) = ObjectsUpTo(doc, 5)

C2_Witness ==
    Done /\ text = Hello /\ xref_pos = 398 /\ At(file, 398, Bytes("xref\n"))

(***************************************************************************)
(* C3: for every text t, object 4 carries the operator block               *)
(* "BT\n/F1 24 Tf\n100 700 Td\n(" t ") Tj\nET\n" with the bytes of t as    *)
(* they are, and its /Length is the number of bytes of that block (not of  *)
(* chars), so that many bytes lie between "stream\n" and "endstream".      *)
(***************************************************************************)
Obj4At == Min(LineOffsets(file, ObjLine(4)))
LengthAt == Obj4At + Len(Bytes("4 0 obj\n<< /Length "))
LengthValue == ReadDec(file, LengthAt)
BodyAt == DigitsEnd(file, LengthAt) + Len(Bytes(" >>\nstream\n"))
TemplateBody(t) ==
    Bytes("BT\n/F1 24 Tf\n100 700 Td\n(") \o StrBytes(t) \o Bytes(") Tj\nET\n")

\* Object 4 of the file declares n bytes and holds exactly `body` as its stream.
Obj4Holds(n, body) ==
    /\ At(file, Obj4At, Bytes("4 0 obj\n<< /Length "))
    /\ LengthValue = n
    /\ At(file, DigitsEnd(file, LengthAt), Bytes(" >>\nstream\n"))
    /\ At(file, BodyAt, body)
    /\ At(file, BodyAt + n, Bytes("endstream\nendobj\n"))

C3_LengthIsByteLength ==
    Done =>
        /\ StreamBody(doc.contents) = TemplateBody(text)
        /\ Obj4Holds(Len(TemplateBody(text)), TemplateBody(text))

\* A text with multi-byte chars: 2 chars, 5 bytes.
C3_Witness ==
    Done /\ text = <<233, 8364>> /\ LengthValue = 33 + 5

(***************************************************************************)
(* C4, as claimed: for the text "Hello" the operator block is              *)
(* "BT\n/F1 24 Tf\n100 700 Td\n(Hello) Tj\nET\n", it is 37 bytes long and  *)
(* /Length reads 37.                                                       *)
(***************************************************************************)
HelloBody == Bytes("BT\n/F1 24 Tf\n100 700 Td\n(Hello) Tj\nET\n")

C4_HelloLength37 ==
    (Done /\ text = Hello) =>
        /\ Len(HelloBody) = 37
        /\ Obj4Holds(37, HelloBody)

(***************************************************************************)
(* C4, amended: for the text "Hello" the operator block is                 *)
(* "BT\n/F1 24 Tf\n100 700 Td\n(Hello) Tj\nET\n", it is 38 bytes long and  *)
(* /Length reads 38.                                                       *)
(***************************************************************************)
C4_HelloLength38 ==
    (Done /\ text = Hello) =>
        /\ Len(HelloBody) = 38
        /\ StreamBody(doc.contents) = HelloBody
        /\ Obj4Holds(38, HelloBody)

C4_Witness ==
    Done /\ text = Hello /\ At(file, LengthAt, Bytes("38 >>"))

(***************************************************************************)
(* C5: a successful create goes through HEADER, OBJECTS (1 to 5 in         *)
(* ascending order), XREF-START-MARK, XREF, TRAILER, STARTXREF, EOF in     *)
(* that order, each once, none skipped or revisited; the file ends with    *)
(* "%%EOF" and no newline after it.                                        *)
(***************************************************************************)
PhaseOrder ==
    <<"idle", "header", "push1", "write1", "push2", "write2", "push3", "write3",
      "push4", "write4", "push5", "write5", "xref_mark", "xref_head",
      "xref_entry", "trailer", "ret">>

\* The place of p in PhaseOrder, or 0.
PhaseIndex(p) ==
    IF \E k \in 1..Len(PhaseOrder) : PhaseOrder[k] = p
    THEN CHOOSE k \in 1..Len(PhaseOrder) : PhaseOrder[k] = p
    ELSE 0

\* One step of create: on to the next phase, or around the loop of the XREF
\* phase until every offset is written, or out with an error, or out with Ok
\* from the last phase only.
C5_Step ==
    \/ /\ PhaseIndex(pc) > 0
       /\ PhaseIndex(pc') = PhaseIndex(pc) + 1
       /\ result' = "None"
       /\ pc = "xref_entry" => entry' = 5
    \/ pc = "xref_entry" /\ pc' = "xref_entry" /\ entry' = entry + 1 /\ entry' < 5
    \/ pc' = "idle" /\ result' = "Err"
    \/ pc = "ret" /\ pc' = "idle" /\ result' = "Ok"

\* The one offset at which a line starts with lit, or -1 when there is not
\* exactly one.
TheLine(lit) ==
    IF Cardinality(LineOffsets(file, lit)) = 1
    THEN Min(LineOffsets(file, lit))
    ELSE -1

C5_Layout ==
    /\ TheLine(Bytes("%PDF-1.4\n")) = 0
    /\ \A i \in 1..5 : TheLine(ObjLine(i)) > (IF i = 1 THEN 0 ELSE TheLine(ObjLine(i - 1)))
    /\ TheLine(Bytes("xref\n")) > TheLine(ObjLine(5))
    /\ xref_pos = TheLine(Bytes("xref\n"))
    /\ TheLine(Bytes("trailer\n")) > TheLine(Bytes("xref\n"))
    /\ TheLine(Bytes("startxref\n")) > TheLine(Bytes("trailer\n"))
    /\ TheLine(Bytes("%%EOF")) > TheLine(Bytes("startxref\n"))
    /\ TheLine(Bytes("%%EOF")) + 5 = Len(file)
    /\ file[Len(file)] # 10

C5_LinearPipeline ==
    /\ [][C5_Step]_vars
    /\ [](Done => C5_Layout)

C5_Witness ==
    Done /\ text = Hello /\ Len(file) = 574 /\ At(file, 569, Bytes("%%EOF"))

(***************************************************************************)
(* C6: when File::create, a write or a position query fails, create        *)
(* returns the error at that step: no operation follows the failed one,    *)
(* the result is not Ok, and what was written stays as it is, a strict     *)
(* prefix of what a successful run writes.                                 *)
(***************************************************************************)
\* The whole output of a successful run, from the rendering functions alone.
FullOutput(d) ==
    LET h == VersionToStr(d.version)
        o1 == ObjString(d, 1)
        o2 == ObjString(d, 2)
        o3 == ObjString(d, 3)
        o4 == ObjString(d, 4)
        o5 == ObjString(d, 5)
        p1 == Len(h)
        p2 == p1 + Len(o1)
        p3 == p2 + Len(o2)
        p4 == p3 + Len(o3)
        p5 == p4 + Len(o4)
        px == p5 + Len(o5)
    IN h \o o1 \o o2 \o o3 \o o4 \o o5 \o XrefHead
         \o XrefEntry(p1) \o XrefEntry(p2) \o XrefEntry(p3)
         \o XrefEntry(p4) \o XrefEntry(p5)
         \o Trailer(px)

C6_State ==
    /\ fails <= 1
    /\ fails = 1 => (pc = "idle" /\ result = "Err")
    /\ result = "Err" => fails = 1
    /\ result = "Ok" => fails = 0
    /\ Failed => IsStrictPrefix(Written, FullOutput(doc))
    /\ Done => file = FullOutput(doc)

\* The step that fails leaves the bytes written before it in place.
C6_Step ==
    (pc # "idle" /\ result' = "Err") => (pc' = "idle" /\ IsPrefix(file, file'))

C6_AbortAtFirstFailure ==
    /\ []C6_State
    /\ [][C6_Step]_vars

\* A write of the xref loop failed half way through its line.
C6_Witness ==
    /\ Failed /\ opened /\ entry = 2 /\ fails = 1
    /\ Len(file) = 9 + 49 + 57 + 126 + 82 + 70 + 28 + 19 + 7

(***************************************************************************)
(* C7: in a successfully written file the trailer's /Size is 6, which is   *)
(* 1 + the number of objects written, the count in the subsection header   *)
(* "0 6", and the number of entry lines of the xref section: the free one  *)
(* and one per recorded offset.                                            *)
(***************************************************************************)
TrailerAt == Min(LineOffsets(file, Bytes("trailer\n")))
SizeValue == ReadDec(file, TrailerAt + Len(Bytes("trailer\n<< /Size ")))
HeaderCount == ReadDec(file, XrefAt + Len(Bytes("xref\n0 ")))

\* The number of lines that end between offsets a and b of the file.
LinesBetween(a, b) == Cardinality({p \in (a + 1)..b : file[p] = 10})

C7_SizeIsEntryCount ==
    Done =>
        /\ At(file, TrailerAt, Bytes("trailer\n<< /Size "))
        /\ At(file, XrefAt, Bytes("xref\n0 "))
        /\ At(file, EntryAt(0), Bytes("0000000000 65535 f\n"))
        /\ SizeValue = 6
        /\ SizeValue = 1 + Cardinality(LineOffsets(file, Bytes("endobj\n")))
        /\ SizeValue = HeaderCount
        /\ SizeValue = LinesBetween(EntryAt(0), TrailerAt)
        /\ SizeValue = 1 + Len(offsets)
        /\ \A k \in 1..Len(offsets) : At(file, EntryAt(k) + 10, Bytes(" 00000 n\n"))

C7_Witness ==
    Done /\ entry = 5 /\ LinesBetween(EntryAt(0), TrailerAt) = 6

(***************************************************************************)
(* C8: for a text of any length, every in-use xref line create writes is   *)
(* the offset zero-padded to exactly 10 digits, a space, "00000", a space, *)
(* "n", a newline; no offset is rendered with more than 10 digits.         *)
(* (The claim counts 20 bytes for this line; see C8_TwentyBytes.)          *)
(***************************************************************************)
\* Line l is 10 digits and then " 00000 n\n".
TenDigitEntry(l) ==
    /\ Len(l) >= 10
    /\ \A j \in 1..10 : IsDigit(l[j])
    /\ SubSeq(l, 11, Len(l)) = Bytes(" 00000 n\n")

C8_TenDigitForm ==
    \A k \in 1..Len(wide.lines) : TenDigitEntry(wide.lines[k])

\* The byte count C8 gives for a line, alone: every line of the form above has
\* 10 + 1 + 5 + 1 + 1 + 1 = 19 bytes, so this fails on the first line written.
C8_TwentyBytes ==
    \A k \in 1..Len(wide.lines) : Len(wide.lines[k]) = 20

\* What holds of the lines: while the offset is below 10^10 the line has the
\* form and 19 bytes; from 10^10 on it has 11 digits.
C8_FormBelowTenDigits ==
    \A k \in 1..Len(wide.lines) :
        IF wide.offsets[k].hi < 10
        THEN TenDigitEntry(wide.lines[k]) /\ Len(wide.lines[k]) = 19
        ELSE ~TenDigitEntry(wide.lines[k])

\* The length-only run writes the lines the byte-exact run writes.
WideAgrees ==
    /\ \A i \in 1..NumObjs :
          WideObjLen(doc, WideOf(Len(doc.contents.content)), i)
              = WideOf(Len(ObjString(doc, i)))
    /\ \A k \in 1..Len(offsets) : WideXrefEntry(WideOf(offsets[k])) = XrefEntry(offsets[k])

(***************************************************************************)
(* C9: every reference written, in an object body or in the trailer, names *)
(* an id in 1..5 with generation 0 whose object create writes; the ids of  *)
(* the objects written are 1, 2, 3, 4, 5 in this order.                    *)
(***************************************************************************)
\* The index of the first byte of the run of digits that ends at index q.
RECURSIVE DigitsBegin(_, _)
DigitsBegin(f, q) ==
    IF q > 1 /\ IsDigit(f[q - 1]) THEN DigitsBegin(f, q - 1) ELSE q

\* The indices of the R that end a reference "<id> <generation> R".
RefEnds(f) ==
    {p \in 5..Len(f) :
        /\ f[p] = 82 /\ f[p - 1] = 32 /\ IsDigit(f[p - 2])
        /\ DigitsBegin(f, p - 2) > 2
        /\ f[DigitsBegin(f, p - 2) - 1] = 32
        /\ IsDigit(f[DigitsBegin(f, p - 2) - 2])}

\* The reference that ends at index p, as <<id, generation>>.
RefAt(f, p) ==
    LET g == DigitsBegin(f, p - 2)
        i == DigitsBegin(f, g - 2)
    IN <<DecValue(SubSeq(f, i, g - 2)), DecValue(SubSeq(f, g, p - 2))>>

\* The references of the document, as PdfDocument::new set them.
DocRefs(d) ==
    {d.catalog.pages, d.page.parent, d.page.contents, d.page.font_resources.object}
        \cup {d.pages.kids[k] : k \in 1..Len(d.pages.kids)}

\* The object written at recorded offset k, as <<id, generation>>.
ObjWritten(k) ==
    <<ReadDec(file, offsets[k]), ReadDec(file, DigitsEnd(file, offsets[k]) + 1)>>

C9_ReferencesResolve ==
    /\ \A r \in DocRefs(doc) : r.id \in 1..5 /\ r.generation = 0
    /\ Done =>
        /\ \A k \in 1..Len(offsets) :
            /\ ObjWritten(k) = <<k, 0>>
            /\ At(file, DigitsEnd(file, DigitsEnd(file, offsets[k]) + 1), Bytes(" obj\n"))
        /\ Cardinality(RefEnds(file)) = 6
        /\ \A p \in RefEnds(file) :
            \E k \in 1..Len(offsets) : RefAt(file, p) = ObjWritten(k)
        /\ {RefAt(file, p) : p \in RefEnds(file)}
              = {<<r.id, r.generation>> : r \in DocRefs(doc)} \cup {<<1, 0>>}

C9_Witness ==
    Done /\ {RefAt(file, p)[1] : p \in RefEnds(file)} = 1..5

(***************************************************************************)
(* C10: in every state, across calls of create, Pages.count equals the     *)
(* length of Pages.kids and both are 1; the assertions of Pages::to_string *)
(* never fail; the /Count written in object 2 is the number of references  *)
(* in its /Kids array.                                                     *)
(***************************************************************************)
\* Object 2 of the file: the index of "[" and of "]", and its /Count.
Obj2At == Min(LineOffsets(file, ObjLine(2)))
Obj3At == Min(LineOffsets(file, ObjLine(3)))
KidsOpen == CHOOSE p \in (Obj2At + 1)..Obj3At : file[p] = 91
KidsClose == CHOOSE p \in (Obj2At + 1)..Obj3At : file[p] = 93
CountValue == ReadDec(file, KidsClose + Len(Bytes(" /Count ")))

C10_CountIsKids ==
    /\ doc.pages.count = Len(doc.pages.kids)
    /\ doc.pages.count = 1
    /\ pc # "panicked"
    /\ (Done \/ (Failed /\ ~opened /\ file = FullOutput(doc))) =>
        /\ At(file, KidsClose, Bytes(" /Count "))
        /\ CountValue = Cardinality({p \in RefEnds(file) : KidsOpen < p /\ p < KidsClose})
        /\ CountValue = doc.pages.count

\* A later call of create has failed at File::create: the file of the call
\* before it is still there, and the document is as it was.
C10_Witness ==
    /\ Failed /\ ~opened /\ file = FullOutput(doc)
    /\ CountValue = 1 /\ KidsClose = KidsOpen + 6
====
